---- MODULE Spec2Model ----
(***************************************************************************)
(* dnsfilter: a UDP DNS sinkhole (src/src/main.rs).                        *)
(*                                                                         *)
(* Byte buffers (&[u8], Vec<u8>) are sequences of integers 0..255.  A Rust *)
(* String is its UTF-8 byte sequence, so a domain name is a sequence of    *)
(* bytes as well and '.' is the byte 46.  Rust indexes from 0, TLA+ from   *)
(* 1: request[pos] in the source is request[pos + 1] here.                 *)
(***************************************************************************)
EXTENDS Integers, Sequences, FiniteSets, TLC

VARIABLES
    creq,       \* codec: the buffer handed to the two codec functions
    cparsed,    \* codec: result of parse_dns_query(creq)
    csynth,     \* codec: result of create_nxdomain_response(creq)
    cdone,      \* codec: which of the two functions have been applied
    filter,     \* the DomainSet built by read_denylist
    mdomain,    \* matcher: the domain handed to in_denylist
    mresult,    \* matcher: result of in_denylist(mdomain, filter)
    mdone,      \* matcher: has in_denylist been applied
    lpc,        \* where main / start_service stands
    file,       \* the lines of the denylist file not read yet
    entries,    \* read_denylist's `entries` not inserted yet
    task,       \* the spawned handle_request tasks
    spawned,    \* how many datagrams the listener has received and dispatched
    toUpstream, \* the datagrams sent to the upstream resolver
    inbox,      \* the datagrams delivered to each task's forwarding socket
    sent        \* the datagrams each task sent on the listen socket

cvars == <<creq, cparsed, csynth, cdone>>
mvars == <<mdomain, mresult, mdone>>

svars == <<lpc, file, entries, task, spawned, toUpstream, inbox, sent>>

vars == <<creq, cparsed, csynth, cdone, filter, mdomain, mresult, mdone,
          lpc, file, entries, task, spawned, toUpstream, inbox, sent>>

-----------------------------------------------------------------------------
(* Bounds of the model. *)

MaxBody == 3        \* longest raw question section enumerated byte by byte
MaxLabels == 3      \* most labels of an enumerated domain name
MaxReq == 2         \* most datagrams the listener receives

-----------------------------------------------------------------------------
(* Program constants. *)

HeaderLen == 12     \* the DNS header; `request.len() < 12`, `let mut pos = 12`
Dot == 46           \* '.'

ErrInvalidRequest == "Invalid DNS request"
ErrInvalidName == "Invalid domain name in DNS request"
ErrInvalidUtf8 == "Invalid UTF-8 in domain name"

-----------------------------------------------------------------------------
(* Result<Vec<u8> | String, &'static str> *)

Ok(v) == [ok |-> TRUE, val |-> v, err |-> ""]
Err(e) == [ok |-> FALSE, val |-> <<>>, err |-> e]
NotRun == [ok |-> FALSE, val |-> <<>>, err |-> "not run"]

\* The same for parse_dns_query, with the buffer offsets (0-based) it read.
POk(v, reads) == [ok |-> TRUE, val |-> v, err |-> "", reads |-> reads]
PErr(e, reads) == [ok |-> FALSE, val |-> <<>>, err |-> e, reads |-> reads]
PNotRun == PErr("not run", {})

-----------------------------------------------------------------------------
(* std::str::from_utf8: the well-formed UTF-8 byte sequences. *)

IsCont(b) == b >= 128 /\ b <= 191

\* The width of the well-formed UTF-8 sequence starting at s[i]; 0 if none.
Utf8Width(s, i) ==
    LET b == s[i]
        n == Len(s)
        c1 == i + 1 <= n /\ IsCont(s[i + 1])
        c2 == i + 2 <= n /\ IsCont(s[i + 2])
        c3 == i + 3 <= n /\ IsCont(s[i + 3])
    IN  IF b < 128 THEN 1
        ELSE IF b >= 194 /\ b <= 223 THEN (IF c1 THEN 2 ELSE 0)
        ELSE IF b = 224 THEN (IF c1 /\ s[i + 1] >= 160 /\ c2 THEN 3 ELSE 0)
        ELSE IF b = 237 THEN (IF c1 /\ s[i + 1] <= 159 /\ c2 THEN 3 ELSE 0)
        ELSE IF b >= 225 /\ b <= 239 THEN (IF c1 /\ c2 THEN 3 ELSE 0)
        ELSE IF b = 240 THEN (IF c1 /\ s[i + 1] >= 144 /\ c2 /\ c3 THEN 4 ELSE 0)
        ELSE IF b >= 241 /\ b <= 243 THEN (IF c1 /\ c2 /\ c3 THEN 4 ELSE 0)
        ELSE IF b = 244 THEN (IF c1 /\ s[i + 1] <= 143 /\ c2 /\ c3 THEN 4 ELSE 0)
        ELSE 0

RECURSIVE Utf8From(_, _)
Utf8From(s, i) ==
    IF i > Len(s) THEN TRUE
    ELSE LET w == Utf8Width(s, i)
         IN  IF w = 0 THEN FALSE ELSE Utf8From(s, i + w)

from_utf8_ok(s) == Utf8From(s, 1)

-----------------------------------------------------------------------------
(* create_nxdomain_response *)

\* response[2] |= 0x80
SetResponseFlag(b) == IF b >= 128 THEN b ELSE b + 128

\* A faulty variant of SetRcodeNxdomain: `response[3] = 0x03`, the upper nibble lost.
SetRcodeClobbers(b) == 3

\* response[3] = (response[3] & 0xF0) | 0x03
SetRcodeNxdomain(b) == (b \div 16) * 16 + 3

\* A faulty variant of create_nxdomain_response: the response is built from the header
\* alone, the question section is not copied.
NxdomainHeaderOnly(request) ==
    IF Len(request) < HeaderLen THEN Err(ErrInvalidRequest)
    ELSE Ok([i \in 1..HeaderLen |->
                IF i = 3 THEN SetResponseFlag(request[i])
                ELSE IF i = 4 THEN (request[i] \div 16) * 16 + 3
                ELSE IF i >= 7 /\ i <= 12 THEN 0
                ELSE request[i]])

\* A faulty variant of create_nxdomain_response: the additional-record count (bytes 10
\* and 11) is not zeroed.
NxdomainKeepsAdditional(request) ==
    IF Len(request) < HeaderLen THEN Err(ErrInvalidRequest)
    ELSE Ok([i \in 1..Len(request) |->
                IF i = 3 THEN SetResponseFlag(request[i])
                ELSE IF i = 4 THEN (request[i] \div 16) * 16 + 3
                ELSE IF i >= 7 /\ i <= 10 THEN 0
                ELSE request[i]])

\* A faulty variant of create_nxdomain_response: its length check is stricter than
\* the parser's, so it refuses requests that the parser accepts.
NxdomainRefusesShort(request) ==
    IF Len(request) < HeaderLen + 20 THEN Err(ErrInvalidRequest)
    ELSE Ok([i \in 1..Len(request) |->
                IF i = 3 THEN SetResponseFlag(request[i])
                ELSE IF i = 4 THEN SetRcodeNxdomain(request[i])
                ELSE IF i >= 7 /\ i <= 12 THEN 0
                ELSE request[i]])

create_nxdomain_response(request) ==
    IF Len(request) < HeaderLen THEN Err(ErrInvalidRequest)
    ELSE Ok([i \in 1..Len(request) |->
                IF i = 3 THEN SetResponseFlag(request[i])
                ELSE IF i = 4 THEN SetRcodeNxdomain(request[i])
                ELSE IF i >= 7 /\ i <= 12 THEN 0
                ELSE request[i]])

-----------------------------------------------------------------------------
(* parse_dns_query *)

\* A faulty variant of StripTrailingDot: the trailing dot is kept.
KeepTrailingDot(domain) == domain

\* `if domain.ends_with('.') { domain.pop(); }`
StripTrailingDot(domain) ==
    IF Len(domain) > 0 /\ domain[Len(domain)] = Dot
    THEN SubSeq(domain, 1, Len(domain) - 1)
    ELSE domain

\* A faulty variant of LabelOverruns: the bound is off by one.
LabelOverrunsByTwo(request, pos, len) == pos + len > Len(request) + 1

\* Does the label of `len` bytes that starts at offset pos run past the buffer?
LabelOverruns(request, pos, len) == pos + len > Len(request)

\* &request[pos..pos + len].  The overrun test above keeps the slice inside the
\* buffer; were it not to, the offsets past the end would still be touched, and
\* are recorded as read by ParseLoop.
Slice(request, pos, len) ==
    [i \in 1..len |-> IF pos + i <= Len(request) THEN request[pos + i] ELSE 0]

\* A faulty variant of ParseLoop: the bytes of a label are taken as text
\* unchecked.
RECURSIVE ParseLoopUnchecked(_, _, _, _)
ParseLoopUnchecked(request, pos, domain, reads) ==
    IF pos < Len(request) /\ request[pos + 1] # 0
    THEN LET len == request[pos + 1]
             p == pos + 1
             label == Slice(request, p, len)
         IN  IF LabelOverruns(request, p, len)
             THEN PErr(ErrInvalidName, reads \cup {pos})
             ELSE ParseLoopUnchecked(request, p + len, domain \o label \o <<Dot>>,
                                     reads \cup {pos} \cup (p..(p + len - 1)))
    ELSE POk(StripTrailingDot(domain),
             IF pos < Len(request) THEN reads \cup {pos} ELSE reads)

\* The `while` loop of parse_dns_query from offset pos, with the domain built so
\* far and the set of buffer offsets (0-based) read so far.
RECURSIVE ParseLoop(_, _, _, _)
ParseLoop(request, pos, domain, reads) ==
    IF pos < Len(request) /\ request[pos + 1] # 0
    THEN LET len == request[pos + 1]
             p == pos + 1
             label == Slice(request, p, len)
         IN  IF LabelOverruns(request, p, len)
             THEN PErr(ErrInvalidName, reads \cup {pos})
             ELSE IF ~from_utf8_ok(label)
             THEN PErr(ErrInvalidUtf8, reads \cup {pos} \cup (p..(p + len - 1)))
             ELSE ParseLoop(request, p + len, domain \o label \o <<Dot>>,
                            reads \cup {pos} \cup (p..(p + len - 1)))
    ELSE POk(StripTrailingDot(domain),
             IF pos < Len(request) THEN reads \cup {pos} ELSE reads)

\* A faulty variant of parse_dns_query: the length of the buffer is not checked.
ParseWithoutLengthCheck(request) == ParseLoop(request, HeaderLen, <<>>, {})

parse_dns_query(request) ==
    IF Len(request) < HeaderLen
    THEN PErr(ErrInvalidRequest, {})
    ELSE ParseLoop(request, HeaderLen, <<>>, {})

-----------------------------------------------------------------------------
(* DomainSet: a qfilter::Filter, an approximate set.  It holds what was      *)
(* inserted and, the library being probabilistic, may also answer true for   *)
(* some strings that were not (its false positives, fixed once it is built). *)

NewDomainSet == [inserted |-> {}, falsepos |-> {}]

Insert(set, s) == [set EXCEPT !.inserted = @ \cup {s}]

Contains(set, s) == s \in set.inserted \/ s \in set.falsepos

-----------------------------------------------------------------------------
(* in_denylist *)

\* domain.split('.'), leftmost part first
RECURSIVE SplitDots(_)
SplitDots(s) ==
    IF \A i \in 1..Len(s) : s[i] # Dot THEN <<s>>
    ELSE LET i == CHOOSE k \in 1..Len(s) :
                      s[k] = Dot /\ \A j \in 1..(k - 1) : s[j] # Dot
         IN  <<SubSeq(s, 1, i - 1)>> \o SplitDots(SubSeq(s, i + 1, Len(s)))

Reverse(s) == [i \in 1..Len(s) |-> s[Len(s) + 1 - i]]

\* domain.rsplit('.'), rightmost part first
RSplit(domain) == Reverse(SplitDots(domain))

\* A faulty variant of MatchLoop: the label alone is tested, not the rebuilt suffix.
RECURSIVE MatchLoopLabelOnly(_, _, _, _)
MatchLoopLabelOnly(parts, i, current, denylist) ==
    IF i > Len(parts) THEN FALSE
    ELSE IF Contains(denylist, parts[i]) THEN TRUE
    ELSE MatchLoopLabelOnly(parts, i + 1, current, denylist)

\* `for part in parts` from the i-th part on, `current` being the suffix
\* rebuilt so far
RECURSIVE MatchLoop(_, _, _, _)
MatchLoop(parts, i, current, denylist) ==
    IF i > Len(parts) THEN FALSE
    ELSE LET next == parts[i] \o <<Dot>> \o current
         IN  IF Contains(denylist, next) THEN TRUE
             ELSE MatchLoop(parts, i + 1, next, denylist)

\* the strings the loop passes to denylist.contains, from the i-th part on
RECURSIVE MatchCalls(_, _, _, _)
MatchCalls(parts, i, current, denylist) ==
    IF i > Len(parts) THEN {}
    ELSE LET next == parts[i] \o <<Dot>> \o current
         IN  {next} \cup (IF Contains(denylist, next) THEN {}
                          ELSE MatchCalls(parts, i + 1, next, denylist))

\* the strings in_denylist(domain, denylist) passes to denylist.contains
ContainsCalls(domain, denylist) ==
    LET parts == RSplit(domain)
    IN  IF Len(parts) = 0 THEN {} ELSE MatchCalls(parts, 2, parts[1], denylist)

in_denylist(domain, denylist) ==
    LET parts == RSplit(domain)
    IN  IF Len(parts) = 0 THEN FALSE
        ELSE MatchLoop(parts, 2, parts[1], denylist)

-----------------------------------------------------------------------------
(* Inputs of the codec specification. *)

\* Label text: "a", "b", "ab".
Labels == {<<97>>, <<98>>, <<97, 98>>}

RECURSIVE SeqsUpTo(_, _)
SeqsUpTo(S, n) ==
    IF n = 0 THEN {<<>>}
    ELSE LET shorter == SeqsUpTo(S, n - 1)
         IN  shorter \cup {Append(s, x) : s \in {t \in shorter : Len(t) = n - 1}, x \in S}

\* labels joined by '.', the way the parser assembles them
RECURSIVE Join(_)
Join(ls) ==
    IF Len(ls) = 0 THEN <<>>
    ELSE IF Len(ls) = 1 THEN ls[1]
    ELSE ls[1] \o <<Dot>> \o Join(Tail(ls))

\* the wire form of a name: each label preceded by its length byte
RECURSIVE Encode(_)
Encode(ls) ==
    IF Len(ls) = 0 THEN <<>>
    ELSE <<Len(ls[1])>> \o ls[1] \o Encode(Tail(ls))

LabelSeqs == SeqsUpTo(Labels, MaxLabels) \ {<<>>}

\* id 0x1234, flags RD, one question, no records
PlainHeader == <<18, 52, 1, 0, 0, 1, 0, 0, 0, 0, 0, 0>>

Headers ==
    {<<18, 52, b2, b3, 0, 1>> \o counts :
        b2 \in {1, 129}, b3 \in {0, 143},
        counts \in {<<0, 0, 0, 0, 0, 0>>, <<0, 1, 2, 3, 0, 255>>}}

\* 0, length bytes 1 and 2, '.', 'A', 'a', BEL, the two bytes of U+00E9, 0xFF
BodyBytes == {0, 1, 2, 46, 65, 97, 7, 195, 169, 255}

RawBodies == SeqsUpTo(BodyBytes, MaxBody)

Trailers == {<<>>, <<0, 1, 0, 1>>, <<1, 97>>}

WireBodies == {Encode(ls) \o <<0>> \o t : ls \in LabelSeqs, t \in Trailers}

ShortBuffers == {SubSeq(PlainHeader, 1, n) : n \in 0..(HeaderLen - 1)}

CodecRequests ==
    ShortBuffers
    \cup {PlainHeader \o b : b \in RawBodies}
    \cup {h \o b : h \in Headers, b \in WireBodies}

-----------------------------------------------------------------------------
(* The codec specification: both codec functions applied to one buffer. *)

CodecIdle ==
    /\ creq = <<>>
    /\ cparsed = PNotRun
    /\ csynth = NotRun
    /\ cdone = {}

MatchIdle ==
    /\ mdomain = <<>>
    /\ mresult = FALSE
    /\ mdone = FALSE

ServiceIdle ==
    /\ lpc = "idle"
    /\ file = <<>>
    /\ entries = <<>>
    /\ task = <<>>
    /\ spawned = 0
    /\ toUpstream = {}
    /\ inbox = <<>>
    /\ sent = <<>>

CodecInit ==
    /\ creq \in CodecRequests
    /\ cparsed = PNotRun
    /\ csynth = NotRun
    /\ cdone = {}
    /\ filter = NewDomainSet
    /\ MatchIdle
    /\ ServiceIdle

ApplyParse ==
    /\ "parse" \notin cdone
    /\ cparsed' = parse_dns_query(creq)
    /\ cdone' = cdone \cup {"parse"}
    /\ UNCHANGED <<creq, csynth, filter, mvars, svars>>

ApplySynthesize ==
    /\ "synth" \notin cdone
    /\ csynth' = create_nxdomain_response(creq)
    /\ cdone' = cdone \cup {"synth"}
    /\ UNCHANGED <<creq, cparsed, filter, mvars, svars>>

CodecNext == ApplyParse \/ ApplySynthesize

SpecCodec == CodecInit /\ [][CodecNext]_vars

-----------------------------------------------------------------------------
(* The matcher specification: in_denylist applied to one domain and one      *)
(* filter.                                                                   *)

\* "a", "b"
MatchLabels == {<<97>>, <<98>>}

MatchNames == {Join(ls) : ls \in SeqsUpTo(MatchLabels, MaxLabels) \ {<<>>}}

\* the empty domain, and names a label containing '.' parses to:
\* "a..b", ".a", "a."
MatchDomains ==
    MatchNames \cup {<<>>, <<97, 46, 46, 98>>, <<46, 97>>, <<97, 46>>}

\* denylists of at most two entries
Denylists == {{}} \cup {{e, f} : e \in MatchNames, f \in MatchNames}

\* no false positive, or one: "b.a", "a"
FalsePositives == {{}, {<<98, 46, 97>>}, {<<97>>}}

MatchInit ==
    /\ \E names \in Denylists, fp \in FalsePositives :
          filter = [inserted |-> names, falsepos |-> fp \ names]
    /\ mdomain \in MatchDomains
    /\ mresult = FALSE
    /\ mdone = FALSE
    /\ CodecIdle
    /\ ServiceIdle

ApplyMatch ==
    /\ ~mdone
    /\ mresult' = in_denylist(mdomain, filter)
    /\ mdone' = TRUE
    /\ UNCHANGED <<mdomain, filter, cvars, svars>>

MatchNext == ApplyMatch

SpecMatch == MatchInit /\ [][MatchNext]_vars

-----------------------------------------------------------------------------
(* read_denylist: the text of one line. *)

Hash == 35          \* '#'

\* char::is_whitespace, over ASCII
IsSpace(b) == b \in {9, 10, 11, 12, 13, 32}

\* line.split_once('#'): the text before the first '#', or the whole line
BeforeComment(line) ==
    IF \A i \in 1..Len(line) : line[i] # Hash THEN line
    ELSE LET i == CHOOSE k \in 1..Len(line) :
                      line[k] = Hash /\ \A j \in 1..(k - 1) : line[j] # Hash
         IN  SubSeq(line, 1, i - 1)

\* str::trim
Trim(s) ==
    IF \A i \in 1..Len(s) : IsSpace(s[i]) THEN <<>>
    ELSE LET a == CHOOSE k \in 1..Len(s) :
                      ~IsSpace(s[k]) /\ \A j \in 1..(k - 1) : IsSpace(s[j])
             b == CHOOSE k \in 1..Len(s) :
                      ~IsSpace(s[k]) /\ \A j \in (k + 1)..Len(s) : IsSpace(s[j])
         IN  SubSeq(s, a, b)

\* str::to_lowercase, over ASCII
ToLowercase(s) == [i \in 1..Len(s) |-> IF s[i] >= 65 /\ s[i] <= 90 THEN s[i] + 32 ELSE s[i]]

NormalizeLine(line) == ToLowercase(Trim(BeforeComment(line)))

-----------------------------------------------------------------------------
(* The service: main, start_service and the handle_request tasks. *)

\* "B.a # ads", "", "# x", " c "
DenylistFile ==
    << <<66, 46, 97, 32, 35, 32, 97, 100, 115>>, <<>>, <<35, 32, 120>>, <<32, 99, 32>> >>

\* what the filter may wrongly hold once built: nothing, or "a.a"
ServiceFalsePositives == {{}, {<<97, 46, 97>>}}

Query(ls) == PlainHeader \o Encode(ls) \o <<0, 0, 1, 0, 1>>

\* the datagrams that arrive on the listen socket, each with its source
\* address: queries for "b.a", "a.b.a", "a" and "a.a", and a 5-byte datagram
Arrivals ==
    { [data |-> Query(<< <<98>>, <<97>> >>), src |-> "client1"],
      [data |-> Query(<< <<97>>, <<98>>, <<97>> >>), src |-> "client2"],
      [data |-> Query(<< <<97>> >>), src |-> "client1"],
      [data |-> Query(<< <<97>>, <<97>> >>), src |-> "client2"],
      [data |-> <<18, 52, 1, 0, 0>>, src |-> "client2"] }

\* what the upstream resolver may answer to a query: the query marked as a
\* response with one answer record appended, or an empty datagram
UpstreamAnswers(data) ==
    { <<>> } \cup
    (IF Len(data) >= HeaderLen
     THEN {[i \in 1..Len(data) |->
               IF i = 3 THEN SetResponseFlag(data[i])
               ELSE IF i = 8 THEN 1 ELSE data[i]] \o <<192, 12, 127, 0, 0, 1>>}
     ELSE {})

Tasks == 1..MaxReq

NoTask == [pc |-> "Unspawned", request |-> <<>>, source |-> "", response |-> <<>>,
           error |-> ""]

RuntimeAlive == lpc = "recv"

ServiceInit ==
    /\ lpc = "open"
    /\ file = DenylistFile
    /\ entries = <<>>
    /\ filter = NewDomainSet
    /\ task = [t \in Tasks |-> NoTask]
    /\ spawned = 0
    /\ toUpstream = {}
    /\ inbox = [t \in Tasks |-> <<>>]
    /\ sent = [t \in Tasks |-> <<>>]
    /\ CodecIdle
    /\ MatchIdle

\* main: args.upstream_dns.parse()? or File::open(path)? fails
StartupFails ==
    /\ lpc = "open"
    /\ lpc' = "exited"
    /\ UNCHANGED <<file, entries, filter, task, spawned, toUpstream, inbox, sent,
                   cvars, mvars>>

\* read_denylist: File::open succeeds
OpenDenylist ==
    /\ lpc = "open"
    /\ lpc' = "read"
    /\ UNCHANGED <<file, entries, filter, task, spawned, toUpstream, inbox, sent,
                   cvars, mvars>>

\* read_denylist: one turn of `for line in reader.lines()`
ReadLine ==
    /\ lpc = "read"
    /\ file # <<>>
    /\ LET line == NormalizeLine(Head(file))
       IN  entries' = IF line # <<>> THEN Append(entries, line) ELSE entries
    /\ file' = Tail(file)
    /\ UNCHANGED <<lpc, filter, task, spawned, toUpstream, inbox, sent, cvars, mvars>>

\* read_denylist: `line?` fails
ReadFails ==
    /\ lpc = "read"
    /\ file # <<>>
    /\ lpc' = "exited"
    /\ UNCHANGED <<file, entries, filter, task, spawned, toUpstream, inbox, sent,
                   cvars, mvars>>

\* read_denylist: DomainSet::new(entries.len())
NewFilter ==
    /\ lpc = "read"
    /\ file = <<>>
    /\ \E fp \in ServiceFalsePositives :
          filter' = [inserted |-> {}, falsepos |-> fp]
    /\ lpc' = "insert"
    /\ UNCHANGED <<file, entries, task, spawned, toUpstream, inbox, sent, cvars, mvars>>

\* read_denylist: one turn of `for entry in entries`
InsertEntry ==
    /\ lpc = "insert"
    /\ entries # <<>>
    /\ filter' = Insert(filter, Head(entries))
    /\ entries' = Tail(entries)
    /\ UNCHANGED <<lpc, file, task, spawned, toUpstream, inbox, sent, cvars, mvars>>

\* A faulty variant of BindListen: the service starts while entries are still
\* to be inserted.
BindListenEarly ==
    /\ lpc = "insert"
    /\ lpc' = "recv"
    /\ UNCHANGED <<file, entries, filter, task, spawned, toUpstream, inbox, sent,
                   cvars, mvars>>

\* start_service: UdpSocket::bind(("0.0.0.0", 53)) succeeds
BindListen ==
    /\ lpc = "insert"
    /\ entries = <<>>
    /\ lpc' = "recv"
    /\ UNCHANGED <<file, entries, filter, task, spawned, toUpstream, inbox, sent,
                   cvars, mvars>>

\* start_service: the bind fails and main returns the error
BindFails ==
    /\ lpc = "insert"
    /\ entries = <<>>
    /\ lpc' = "exited"
    /\ UNCHANGED <<file, entries, filter, task, spawned, toUpstream, inbox, sent,
                   cvars, mvars>>

\* A faulty variant of RecvAndSpawn: the handler is awaited in the loop, so the
\* next datagram is received once the earlier requests have ended.
RecvAndSpawnSequential ==
    /\ lpc = "recv"
    /\ spawned < MaxReq
    /\ \A t \in Tasks : task[t].pc \in {"Unspawned", "Replied", "Dropped", "Panicked"}
    /\ \E a \in Arrivals :
          task' = [task EXCEPT ![spawned + 1] =
                      [pc |-> "Received", request |-> a.data, source |-> a.src,
                       response |-> <<>>, error |-> ""]]
    /\ spawned' = spawned + 1
    /\ UNCHANGED <<lpc, file, entries, filter, toUpstream, inbox, sent, cvars, mvars>>

\* start_service: one turn of the loop: recv_from, then tokio::spawn
RecvAndSpawn ==
    /\ lpc = "recv"
    /\ spawned < MaxReq
    /\ \E a \in Arrivals :
          task' = [task EXCEPT ![spawned + 1] =
                      [pc |-> "Received", request |-> a.data, source |-> a.src,
                       response |-> <<>>, error |-> ""]]
    /\ spawned' = spawned + 1
    /\ UNCHANGED <<lpc, file, entries, filter, toUpstream, inbox, sent, cvars, mvars>>

\* start_service: recv_from fails; main returns and the runtime shuts down,
\* which drops every task at the await it stands at
ListenRecvFails ==
    /\ lpc = "recv"
    /\ lpc' = "exited"
    /\ UNCHANGED <<file, entries, filter, task, spawned, toUpstream, inbox, sent,
                   cvars, mvars>>

\* A faulty variant of Classify: the denylist is not consulted.
ClassifyWithoutDenylist(request, denylist) ==
    IF ~parse_dns_query(request).ok THEN "ParseFailed" ELSE "Allowed"

\* handle_request, lines 107-109: which way the request goes (`name` is the
\* parsed String, computed once and then lent to in_denylist)
Classify(request, denylist) ==
    LET domain == parse_dns_query(request)
    IN  IF ~domain.ok THEN "ParseFailed"
        ELSE IF \E name \in {domain.val} : in_denylist(name, denylist) THEN "Blocked"
        ELSE "Allowed"

\* the datagrams recv_from can hand to a task
ArrivalData == {a.data : a \in Arrivals}

\* the filters read_denylist can hold, during the build and after it
BuildFilters ==
    {[inserted |-> ins, falsepos |-> fp] :
        ins \in SUBSET {NormalizeLine(DenylistFile[i]) : i \in DOMAIN DenylistFile},
        fp \in ServiceFalsePositives \cup {{}}}

\* Lines 107-109 read nothing but the datagram and the filter: Classify, worked
\* out once for every datagram and every filter.
Decisions ==
    [request \in ArrivalData, denylist \in BuildFilters |-> Classify(request, denylist)]

Drop(t, why) == [task EXCEPT ![t].pc = "Dropped", ![t].error = why]

\* handle_request up to its first await
Handle(t) ==
    /\ RuntimeAlive
    /\ task[t].pc = "Received"
    /\ LET request == task[t].request
           class == Decisions[request, filter]
           response == create_nxdomain_response(request)
       IN  task' =
             IF class = "ParseFailed"
             THEN Drop(t, parse_dns_query(request).err)
             ELSE IF class = "Blocked"
             THEN IF response.ok
                  THEN [task EXCEPT ![t].pc = "Synthesized", ![t].response = response.val]
                  ELSE Drop(t, response.err)
             ELSE [task EXCEPT ![t].pc = "Allowed"]
    /\ UNCHANGED <<lpc, file, entries, filter, spawned, toUpstream, inbox, sent,
                   cvars, mvars>>

\* A faulty variant of Reply: the source address is kept in one place shared by
\* the tasks, so the reply goes to the sender of the latest datagram.
ReplyToLatestSource(t) ==
    /\ RuntimeAlive
    /\ task[t].pc \in {"Synthesized", "GotReply"}
    /\ \/ /\ sent' = [sent EXCEPT ![t] =
                        Append(@, [to |-> task[spawned].source, data |-> task[t].response])]
          /\ task' = [task EXCEPT ![t].pc = "Replied"]
       \/ /\ task' = Drop(t, "send_to failed")
          /\ UNCHANGED sent
    /\ UNCHANGED <<lpc, file, entries, filter, spawned, toUpstream, inbox, cvars, mvars>>

\* socket.send_to(&response, source) on the listen socket, lines 110 and 113
Reply(t) ==
    /\ RuntimeAlive
    /\ task[t].pc \in {"Synthesized", "GotReply"}
    /\ \/ /\ sent' = [sent EXCEPT ![t] =
                        Append(@, [to |-> task[t].source, data |-> task[t].response])]
          /\ task' = [task EXCEPT ![t].pc = "Replied"]
       \/ /\ task' = Drop(t, "send_to failed")
          /\ UNCHANGED sent
    /\ UNCHANGED <<lpc, file, entries, filter, spawned, toUpstream, inbox, cvars, mvars>>

\* A faulty variant of BindForward: the panic of the unwrap takes the whole
\* process down.
BindForwardAborts(t) ==
    /\ RuntimeAlive
    /\ task[t].pc = "Allowed"
    /\ \/ task' = [task EXCEPT ![t].pc = "Bound"] /\ UNCHANGED lpc
       \/ task' = [task EXCEPT ![t].pc = "Panicked"] /\ lpc' = "exited"
    /\ UNCHANGED <<file, entries, filter, spawned, toUpstream, inbox, sent, cvars, mvars>>

\* forward_to_upstream: UdpSocket::bind("0.0.0.0:0").await.unwrap()
BindForward(t) ==
    /\ RuntimeAlive
    /\ task[t].pc = "Allowed"
    /\ \/ task' = [task EXCEPT ![t].pc = "Bound"]
       \/ task' = [task EXCEPT ![t].pc = "Panicked"]
    /\ UNCHANGED <<lpc, file, entries, filter, spawned, toUpstream, inbox, sent,
                   cvars, mvars>>

\* forward_to_upstream: socket.send_to(request, upstream_dns)
SendUpstream(t) ==
    /\ RuntimeAlive
    /\ task[t].pc = "Bound"
    /\ \/ /\ toUpstream' = toUpstream \cup {[sock |-> t, data |-> task[t].request]}
          /\ task' = [task EXCEPT ![t].pc = "Forwarded"]
       \/ /\ task' = Drop(t, "Failed to forward")
          /\ UNCHANGED toUpstream
    /\ UNCHANGED <<lpc, file, entries, filter, spawned, inbox, sent, cvars, mvars>>

\* the upstream resolver answers a query to the socket it came from, which is
\* open until forward_to_upstream returns
UpstreamReplies(t) ==
    /\ RuntimeAlive
    /\ task[t].pc = "Forwarded"
    /\ inbox[t] = <<>>
    /\ \E m \in toUpstream :
          /\ m.sock = t
          /\ \E a \in UpstreamAnswers(m.data) : inbox' = [inbox EXCEPT ![t] = <<a>>]
    /\ UNCHANGED <<lpc, file, entries, filter, task, spawned, toUpstream, sent,
                   cvars, mvars>>

\* A faulty variant of RecvUpstream: the tasks receive on one shared socket, so a
\* task may take the reply meant for another.
RecvUpstreamShared(t) ==
    /\ RuntimeAlive
    /\ task[t].pc = "Forwarded"
    /\ \E u \in Tasks :
          /\ inbox[u] # <<>>
          /\ task' = [task EXCEPT ![t].pc = "GotReply", ![t].response = Head(inbox[u])]
          /\ inbox' = [inbox EXCEPT ![u] = Tail(@)]
    /\ UNCHANGED <<lpc, file, entries, filter, spawned, toUpstream, sent, cvars, mvars>>

\* forward_to_upstream: socket.recv completes within the timeout
RecvUpstream(t) ==
    /\ RuntimeAlive
    /\ task[t].pc = "Forwarded"
    /\ inbox[t] # <<>>
    /\ task' = [task EXCEPT ![t].pc = "GotReply", ![t].response = Head(inbox[t])]
    /\ inbox' = [inbox EXCEPT ![t] = Tail(@)]
    /\ UNCHANGED <<lpc, file, entries, filter, spawned, toUpstream, sent, cvars, mvars>>

\* A faulty variant of ForwardTimeout: the client is told of the timeout with a
\* reply made from its request.
ForwardTimeoutAnswers(t) ==
    /\ RuntimeAlive
    /\ task[t].pc = "Forwarded"
    /\ inbox[t] = <<>>
    /\ task' = Drop(t, "Upstream DNS server timeout")
    /\ sent' = [sent EXCEPT ![t] =
                  Append(@, [to |-> task[t].source, data |-> task[t].request])]
    /\ UNCHANGED <<lpc, file, entries, filter, spawned, toUpstream, inbox, cvars, mvars>>

\* A faulty variant of ForwardTimeout: socket.recv is awaited without a timeout.
ForwardWithoutTimeout(t) ==
    /\ FALSE
    /\ UNCHANGED vars

\* forward_to_upstream: the 300 ms pass with nothing received
ForwardTimeout(t) ==
    /\ RuntimeAlive
    /\ task[t].pc = "Forwarded"
    /\ inbox[t] = <<>>
    /\ task' = Drop(t, "Upstream DNS server timeout")
    /\ UNCHANGED <<lpc, file, entries, filter, spawned, toUpstream, inbox, sent,
                   cvars, mvars>>

\* forward_to_upstream: socket.recv fails
RecvUpstreamFails(t) ==
    /\ RuntimeAlive
    /\ task[t].pc = "Forwarded"
    /\ task' = Drop(t, "Failed to receive response")
    /\ UNCHANGED <<lpc, file, entries, filter, spawned, toUpstream, inbox, sent,
                   cvars, mvars>>

\* one step of the task spawned for the t-th datagram
TaskStep(t) ==
    \/ Handle(t)
    \/ Reply(t)
    \/ BindForward(t)
    \/ SendUpstream(t)
    \/ RecvUpstream(t)
    \/ ForwardTimeout(t)
    \/ RecvUpstreamFails(t)

Next ==
    \/ StartupFails
    \/ OpenDenylist
    \/ ReadLine
    \/ ReadFails
    \/ NewFilter
    \/ InsertEntry
    \/ BindListen
    \/ BindFails
    \/ RecvAndSpawn
    \/ ListenRecvFails
    \/ \E t \in Tasks : Handle(t)
    \/ \E t \in Tasks : Reply(t)
    \/ \E t \in Tasks : BindForward(t)
    \/ \E t \in Tasks : SendUpstream(t)
    \/ \E t \in Tasks : UpstreamReplies(t)
    \/ \E t \in Tasks : RecvUpstream(t)
    \/ \E t \in Tasks : ForwardTimeout(t)
    \/ \E t \in Tasks : RecvUpstreamFails(t)

Spec == ServiceInit /\ [][Next]_vars

\* The scheduling of the tokio runtime: a task that can step is polled, a reply
\* that has arrived is received and the timer of the timeout fires.  Nothing
\* makes the upstream answer, and nothing makes a socket call fail.
ScheduledStep(t) ==
    \/ Handle(t)
    \/ Reply(t)
    \/ BindForward(t)
    \/ SendUpstream(t)
    \/ RecvUpstream(t)
    \/ ForwardTimeout(t)

FairSpec == Spec /\ \A t \in Tasks : WF_vars(ScheduledStep(t))

-----------------------------------------------------------------------------
(* Properties of the codec. *)

ParseApplied == "parse" \in cdone
SynthApplied == "synth" \in cdone
HasHeader == Len(creq) >= HeaderLen
Body == SubSeq(creq, HeaderLen + 1, Len(creq))
IsUpper(b) == b >= 65 /\ b <= 90

IsPrefix(p, s) == Len(p) <= Len(s) /\ SubSeq(s, 1, Len(p)) = p

\* C4: the domain name returned by parse_dns_query contains no uppercase
\* letter, whatever the letter case of the label bytes in the request.
C4_ParsedDomainLowercase ==
    (ParseApplied /\ cparsed.ok) =>
        \A i \in 1..Len(cparsed.val) : ~IsUpper(cparsed.val[i])

\* C5: for every request of length >= 12 the negative response has the
\* request's length, and its transaction id (bytes 0-1), its question count
\* (bytes 4-5) and every byte from offset 12 onward are the request's.
C5_SynthFrame ==
    (SynthApplied /\ HasHeader) =>
        /\ csynth.ok
        /\ Len(csynth.val) = Len(creq)
        /\ \A i \in {1, 2, 5, 6} \cup ((HeaderLen + 1)..Len(creq)) :
               csynth.val[i] = creq[i]

C5_Witness ==
    /\ SynthApplied /\ csynth.ok
    /\ Len(creq) > HeaderLen
    /\ creq[3] < 128 /\ creq[8] # 0 /\ creq[1] # 0 /\ creq[6] # 0

\* C6: in the negative response of a request of length >= 12 the top bit of
\* byte 2 is set and its other seven bits are the request's; the low nibble of
\* byte 3 is 3 and its upper nibble is the request's.
C6_SynthFlags ==
    (SynthApplied /\ HasHeader) =>
        /\ csynth.ok
        /\ csynth.val[3] >= 128
        /\ csynth.val[3] % 128 = creq[3] % 128
        /\ csynth.val[4] % 16 = 3
        /\ csynth.val[4] \div 16 = creq[4] \div 16

C6_Witness ==
    /\ SynthApplied /\ csynth.ok
    /\ creq[3] = 1 /\ creq[4] = 143
    /\ csynth.val[3] = 129 /\ csynth.val[4] = 131

\* C7: for every request of length >= 12, bytes 6 through 11 of the negative
\* response are zero whatever they are in the request, and the question count
\* (bytes 4-5) is the request's.
C7_SynthCounts ==
    (SynthApplied /\ HasHeader) =>
        /\ csynth.ok
        /\ \A i \in 7..12 : csynth.val[i] = 0
        /\ csynth.val[5] = creq[5] /\ csynth.val[6] = creq[6]

C7_Witness ==
    /\ SynthApplied /\ csynth.ok
    /\ creq[8] # 0 /\ creq[9] # 0 /\ creq[10] # 0 /\ creq[12] # 0
    /\ creq[6] = 1 /\ csynth.val[6] = 1

\* C8: parsing a request made of a 12-byte header, each label of a
\* well-formed domain preceded by its length byte, a zero byte and any trailing
\* bytes returns exactly that domain (the labels joined by dots, no trailing
\* dot).
C8_RoundTrip ==
    (ParseApplied /\ HasHeader) =>
        \A ls \in LabelSeqs :
            IsPrefix(Encode(ls) \o <<0>>, Body) =>
                cparsed.ok /\ cparsed.val = Join(ls)

C8_Witness ==
    /\ ParseApplied /\ HasHeader
    /\ \E ls \in LabelSeqs :
          /\ Len(ls) = 3
          /\ IsPrefix(Encode(ls) \o <<0>>, Body)
          /\ Len(Body) > Len(Encode(ls)) + 1
          /\ cparsed.val = Join(ls)

\* C9: for every buffer shorter than 12 bytes parse_dns_query and
\* create_nxdomain_response each return the "Invalid DNS request" error and no
\* output; for every buffer of 12 bytes or more create_nxdomain_response
\* succeeds and parse_dns_query does not return that error.
C9_TooShort ==
    /\ (ParseApplied /\ ~HasHeader) =>
           ~cparsed.ok /\ cparsed.err = ErrInvalidRequest /\ cparsed.val = <<>>
    /\ (SynthApplied /\ ~HasHeader) =>
           ~csynth.ok /\ csynth.err = ErrInvalidRequest /\ csynth.val = <<>>
    /\ (SynthApplied /\ HasHeader) => csynth.ok
    /\ (ParseApplied /\ HasHeader) => cparsed.err # ErrInvalidRequest

C9_Witness ==
    /\ ParseApplied /\ SynthApplied
    /\ Len(creq) = HeaderLen - 1
    /\ cparsed.err = ErrInvalidRequest /\ csynth.err = ErrInvalidRequest

\* Reading labels from offset pos, the parser reaches, before any zero length
\* byte and after valid labels only, a length byte whose label would extend
\* past the end of the buffer.
RECURSIVE ReachesTruncatedLabel(_, _)
ReachesTruncatedLabel(request, pos) ==
    /\ pos < Len(request)
    /\ request[pos + 1] # 0
    /\ LET len == request[pos + 1]
       IN  \/ pos + 1 + len > Len(request)
           \/ /\ from_utf8_ok(SubSeq(request, pos + 2, pos + 1 + len))
              /\ ReachesTruncatedLabel(request, pos + 1 + len)

\* C10: a request of length >= 12 whose labels, read from offset 12, reach a
\* length byte whose label would extend past the end of the buffer fails with
\* "Invalid domain name in DNS request", which is neither of the other two
\* errors, returns no domain, and no offset at or beyond the buffer's end is
\* read.
C10_TruncatedLabel ==
    (ParseApplied /\ HasHeader) =>
        /\ cparsed.reads \subseteq 0..(Len(creq) - 1)
        /\ ReachesTruncatedLabel(creq, HeaderLen) =>
              /\ ~cparsed.ok
              /\ cparsed.err = ErrInvalidName
              /\ cparsed.err \notin {ErrInvalidRequest, ErrInvalidUtf8}
              /\ cparsed.val = <<>>

C10_Witness ==
    /\ ParseApplied /\ HasHeader
    /\ Len(Body) = 3 /\ Body[1] = 1 /\ Body[3] = 1
    /\ ReachesTruncatedLabel(creq, HeaderLen)
    /\ cparsed.err = ErrInvalidName

-----------------------------------------------------------------------------
(* Properties of the matcher. *)

\* the suffixes of d taken on label boundaries, d itself included
Suffixes(d) ==
    {d} \cup {SubSeq(d, j + 1, Len(d)) : j \in {k \in 1..Len(d) : d[k] = Dot}}

\* one or more non-empty labels joined by single dots
WellFormedName(d) ==
    /\ Len(d) > 0
    /\ d[1] # Dot /\ d[Len(d)] # Dot
    /\ \A i \in 1..(Len(d) - 1) : ~(d[i] = Dot /\ d[i + 1] = Dot)

\* C1: for every domain d and every suffix s of d taken on label boundaries,
\* the single-label top-level suffix and d itself included, if s is in the
\* filter then in_denylist(d) is true.
C1_SuffixBlocked ==
    (mdone /\ WellFormedName(mdomain)) =>
        ((\E s \in Suffixes(mdomain) : s \in filter.inserted) => mresult = TRUE)

\* C2: with an exact filter in_denylist(d) is false for every domain d none of
\* whose label-boundary suffixes is in the denylist (so a parent of a listed
\* name that is not itself listed is not blocked), and the empty domain is not
\* blocked.
C2_NoSuffixNotBlocked ==
    mdone =>
        /\ (filter.falsepos = {} /\ Suffixes(mdomain) \cap filter.inserted = {})
              => mresult = FALSE
        /\ mdomain = <<>> => mresult = FALSE

C2_Witness ==
    /\ mdone /\ mresult = FALSE
    /\ filter.falsepos = {}
    /\ mdomain = <<97, 46, 98>>
    /\ <<98, 46, 97, 46, 98>> \in filter.inserted
    /\ Suffixes(mdomain) \cap filter.inserted = {}

-----------------------------------------------------------------------------
(* Properties of the service. *)

\* the request of task t parses to a domain that in_denylist accepts
IsBlocked(t) ==
    LET domain == parse_dns_query(task[t].request)
    IN  domain.ok /\ in_denylist(domain.val, filter)

\* the request of task t parses to a domain that in_denylist rejects
IsAllowed(t) ==
    LET domain == parse_dns_query(task[t].request)
    IN  domain.ok /\ ~in_denylist(domain.val, filter)

\* C3: a task whose datagram parses to a domain that in_denylist accepts sends
\* nothing to the upstream resolver, and the one datagram it sends its client
\* is the synthesized negative response; every datagram the upstream receives
\* is the request of a task whose domain in_denylist rejects.
C3_BlockedNeverForwarded ==
    /\ \A t \in Tasks :
          (task[t].pc # "Unspawned" /\ IsBlocked(t)) =>
              /\ \A m \in toUpstream : m.sock # t
              /\ task[t].pc \in {"Received", "Synthesized", "Replied", "Dropped"}
              /\ task[t].pc = "Replied" =>
                    sent[t] = << [to |-> task[t].source,
                                  data |-> create_nxdomain_response(task[t].request).val] >>
              /\ task[t].pc # "Replied" => sent[t] = <<>>
    /\ \A m \in toUpstream : IsAllowed(m.sock) /\ m.data = task[m.sock].request

C3_Witness ==
    \E t, u \in Tasks :
          /\ task[t].pc = "Replied" /\ IsBlocked(t) /\ Len(sent[t]) = 1
          /\ task[u].pc = "Replied" /\ IsAllowed(u)
          /\ \E m \in toUpstream : m.sock = u

ParseErrors == {ErrInvalidRequest, ErrInvalidName, ErrInvalidUtf8}

ForwardErrors ==
    {"Failed to forward", "Upstream DNS server timeout", "Failed to receive response"}

\* C11: a request whose parsing fails, or whose forwarding fails (the send to
\* the upstream fails, the receive fails, or no reply arrives within the
\* timeout), ends in Dropped, and its task sends nothing to its client.
C11_FailedRequestGetsNoReply ==
    \A t \in Tasks :
        /\ (task[t].pc # "Unspawned" /\ ~parse_dns_query(task[t].request).ok) =>
              /\ task[t].pc \in {"Received", "Dropped"}
              /\ task[t].pc = "Dropped" => task[t].error \in ParseErrors
              /\ sent[t] = <<>>
        /\ task[t].error \in ParseErrors \cup ForwardErrors =>
              task[t].pc = "Dropped" /\ sent[t] = <<>>

C11_Witness ==
    \E t, u \in Tasks :
        /\ task[t].pc = "Dropped" /\ task[t].error = ErrInvalidRequest
        /\ Len(task[t].request) = 5 /\ sent[t] = <<>>
        /\ task[u].pc = "Dropped" /\ task[u].error = "Upstream DNS server timeout"
        /\ sent[u] = <<>>
        /\ \E m \in toUpstream : m.sock = u

\* the states of a task that has not ended
InFlight == {"Received", "Synthesized", "Allowed", "Bound", "Forwarded", "GotReply"}

\* the states of a task that ended without a reply
Failed == {"Dropped", "Panicked"}

\* this step is the failure of task t
FailureStep(t) == task[t].pc \notin Failed /\ task'[t].pc \in Failed

\* C12: the failure of a request (parse error, forward error, timeout, error
\* sending the reply, panic of its task) leaves the listener in its receive
\* loop and every other task, its forwarding socket and what it sent untouched;
\* the listener stops only by a step of its own, never by a step of a task.
C12_FailureIsolation ==
    /\ [][\A t \in Tasks : FailureStep(t) =>
              /\ lpc = "recv" /\ lpc' = "recv"
              /\ filter' = filter /\ spawned' = spawned
              /\ \A u \in Tasks \ {t} :
                    task'[u] = task[u] /\ sent'[u] = sent[u] /\ inbox'[u] = inbox[u]]_vars
    /\ [][lpc' # lpc => task' = task /\ sent' = sent]_vars

C12_Witness ==
    /\ lpc = "recv"
    /\ \E t, u \in Tasks :
          /\ t < u
          /\ task[t].pc = "Panicked"
          /\ task[u].pc = "Replied" /\ IsAllowed(u) /\ Len(sent[u]) = 1

\* C13: what a task sends to the upstream is its own datagram, byte for byte;
\* what it takes as the answer is the datagram delivered to its own forwarding
\* socket; and what it then sends its client is that answer, unchanged.
C13_OpaqueRelay ==
    [][\A t \in Tasks :
          /\ (task[t].pc = "Bound" /\ task'[t].pc = "Forwarded") =>
                toUpstream' = toUpstream \cup {[sock |-> t, data |-> task[t].request]}
          /\ (task[t].pc = "Forwarded" /\ task'[t].pc = "GotReply") =>
                /\ inbox[t] # <<>>
                /\ task'[t].response = Head(inbox[t])
                /\ \A u \in Tasks \ {t} : inbox'[u] = inbox[u]
          /\ (task[t].pc = "GotReply" /\ task'[t].pc = "Replied") =>
                sent'[t] = << [to |-> task[t].source, data |-> task[t].response] >>
          /\ task[t].pc = "GotReply" => task'[t].response = task[t].response
          /\ task[t].pc # "Bound" =>
                {m \in toUpstream' : m.sock = t} = {m \in toUpstream : m.sock = t}]_vars

C13_Witness ==
    \E t, u \in Tasks :
        /\ t < u
        /\ task[t].pc = "Forwarded" /\ inbox[t] # <<>>
        /\ task[u].pc = "Replied" /\ IsAllowed(u)
        /\ task[t].request # task[u].request
        /\ Len(sent[u]) = 1 /\ sent[u][1].data = task[u].response
        /\ sent[u][1].data \in UpstreamAnswers(task[u].request) \ {<<>>}
        /\ inbox[t][1] # sent[u][1].data

\* C14 as claimed: under fair scheduling every task in flight eventually reaches
\* Replied or Dropped.
C14_EveryRequestEnds ==
    \A t \in Tasks :
        (task[t].pc \in InFlight) ~> (task[t].pc \in {"Replied", "Dropped"})

\* C14, amended: under fair scheduling every task in flight eventually reaches
\* Replied or Dropped, or ends by the panic of a failed bind of its forwarding
\* socket, unless the listener fails first and the process exits; a request
\* forwarded to an upstream that never answers does not wait forever.
C14_EveryRequestEndsWhileServing ==
    \A t \in Tasks :
        (task[t].pc \in InFlight) ~>
            (task[t].pc \in {"Replied", "Dropped", "Panicked"} \/ lpc = "exited")

C14_Witness ==
    \E t \in Tasks :
        /\ lpc = "recv"
        /\ task[t].pc = "Dropped" /\ task[t].error = "Upstream DNS server timeout"
        /\ inbox[t] = <<>>
        /\ \E m \in toUpstream : m.sock = t

-----------------------------------------------------------------------------
(* Properties of the parser and the matcher together. *)

\* C15: for every request that parses successfully, each string in_denylist
\* passes to contains() is made of non-empty labels joined by single dots, with
\* no leading dot, no trailing dot and no two consecutive dots.
C15_TestedNamesWellFormed ==
    (ParseApplied /\ cparsed.ok) =>
        \A s \in ContainsCalls(cparsed.val, filter) : WellFormedName(s)

\* a control character: C0, DEL
IsControl(b) == b < 32 \/ b = 127

\* valid printable text
IsPrintableText(s) == from_utf8_ok(s) /\ \A i \in 1..Len(s) : ~IsControl(s[i])

\* Reading complete labels from offset pos, the parser reaches, before any zero
\* length byte, a label that is not valid printable text.
RECURSIVE ReachesUnprintableLabel(_, _)
ReachesUnprintableLabel(request, pos) ==
    /\ pos < Len(request)
    /\ request[pos + 1] # 0
    /\ pos + 1 + request[pos + 1] <= Len(request)
    /\ \/ ~IsPrintableText(SubSeq(request, pos + 2, pos + 1 + request[pos + 1]))
       \/ ReachesUnprintableLabel(request, pos + 1 + request[pos + 1])

\* The same for a label that is not valid UTF-8.
RECURSIVE ReachesInvalidUtf8Label(_, _)
ReachesInvalidUtf8Label(request, pos) ==
    /\ pos < Len(request)
    /\ request[pos + 1] # 0
    /\ pos + 1 + request[pos + 1] <= Len(request)
    /\ \/ ~from_utf8_ok(SubSeq(request, pos + 2, pos + 1 + request[pos + 1]))
       \/ ReachesInvalidUtf8Label(request, pos + 1 + request[pos + 1])

\* Every label from offset pos up to the zero length byte or the end of the
\* buffer is complete and valid UTF-8.
RECURSIVE LabelsCompleteAndUtf8(_, _)
LabelsCompleteAndUtf8(request, pos) ==
    \/ pos >= Len(request)
    \/ request[pos + 1] = 0
    \/ /\ pos + 1 + request[pos + 1] <= Len(request)
       /\ from_utf8_ok(SubSeq(request, pos + 2, pos + 1 + request[pos + 1]))
       /\ LabelsCompleteAndUtf8(request, pos + 1 + request[pos + 1])

\* C16 as claimed: parse_dns_query fails with "Invalid UTF-8 in domain name",
\* and returns no domain, whenever a label of the question name is not valid
\* printable text (a control character, or bytes that are not valid text).
C16_UnprintableRejected ==
    (ParseApplied /\ HasHeader /\ ReachesUnprintableLabel(creq, HeaderLen)) =>
        ~cparsed.ok /\ cparsed.err = ErrInvalidUtf8 /\ cparsed.val = <<>>

\* C16, amended: parse_dns_query fails with "Invalid UTF-8 in domain name", and
\* returns no domain, whenever a label of the question name is not valid UTF-8;
\* a name whose labels are complete and valid UTF-8 is accepted, control
\* characters included.
C16_InvalidUtf8Rejected ==
    (ParseApplied /\ HasHeader) =>
        /\ ReachesInvalidUtf8Label(creq, HeaderLen) =>
              ~cparsed.ok /\ cparsed.err = ErrInvalidUtf8 /\ cparsed.val = <<>>
        /\ LabelsCompleteAndUtf8(creq, HeaderLen) => cparsed.ok

C16_Witness ==
    /\ ParseApplied /\ HasHeader
    /\ Len(Body) = 3 /\ Body[1] = 2 /\ Body[2] = 97 /\ Body[3] = 255
    /\ ReachesInvalidUtf8Label(creq, HeaderLen)
    /\ cparsed.err = ErrInvalidUtf8

\* task t waits for an upstream that has not answered
WaitsOnSilentUpstream(t) == task[t].pc = "Forwarded" /\ inbox[t] = <<>>

\* C17: while the listener runs, whatever the other requests are doing (one of
\* them may be waiting for an upstream that stays silent), the listener can
\* receive and dispatch the next datagram, every request in flight can take its
\* next step, and a request that holds its response can send it to its client.
C17_RequestsIndependent ==
    lpc = "recv" =>
        /\ spawned < MaxReq => ENABLED RecvAndSpawn
        /\ \A u \in Tasks :
              /\ task[u].pc \in InFlight => ENABLED TaskStep(u)
              /\ task[u].pc \in {"Synthesized", "GotReply"} =>
                    ENABLED (Reply(u) /\ task'[u].pc = "Replied")

C17_Witness ==
    \E t, u \in Tasks :
        /\ t < u
        /\ lpc = "recv"
        /\ WaitsOnSilentUpstream(t)
        /\ task[u].pc = "Replied" /\ Len(sent[u]) = 1

\* the entries of the denylist file: its lines without comment, trimmed and
\* lowercased, the empty ones left out
DenylistEntries ==
    {NormalizeLine(DenylistFile[i]) : i \in DOMAIN DenylistFile} \ {<<>>}

\* the way a task went, read from where it stands, the error it ended with and
\* the datagrams msgs it sent to the upstream
DecisionOf(tk, msgs) ==
    IF tk.pc \in {"Unspawned", "Received"} THEN "Undecided"
    ELSE IF tk.error \in ParseErrors THEN "ParseFailed"
    ELSE IF \/ tk.pc \in {"Allowed", "Bound", "Forwarded", "GotReply", "Panicked"}
            \/ tk.error \in ForwardErrors
            \/ msgs # {}
    THEN "Allowed"
    ELSE "Blocked"

\* C18: when the listen socket is bound, and whenever a task exists, the file
\* has been read to its end and every entry is in the filter; from then on no
\* step changes the filter; and every task goes the way Classify gives for its
\* datagram and the filter, so two tasks with the same datagram go the same way.
C18_FilterBuiltThenReadOnly ==
    [][/\ (lpc' = "recv" \/ spawned' > 0) =>
              /\ file' = <<>> /\ entries' = <<>>
              /\ filter'.inserted = DenylistEntries
       /\ lpc = "recv" => filter' = filter
       /\ \A t \in Tasks :
              LET way == DecisionOf(task'[t], {m \in toUpstream' : m.sock = t})
              IN  /\ way # "Undecided" => way = Classify(task'[t].request, filter')
                  /\ \A u \in Tasks :
                        LET other == DecisionOf(task'[u], {m \in toUpstream' : m.sock = u})
                        IN  (/\ task'[u].request = task'[t].request
                             /\ way # "Undecided" /\ other # "Undecided") => way = other
      ]_vars

C18_Witness ==
    \E t, u \in Tasks :
        /\ t # u
        /\ filter.inserted = DenylistEntries /\ Cardinality(DenylistEntries) = 2
        /\ task[t].request = task[u].request
        /\ task[t].pc = "Replied" /\ task[u].pc = "Replied"
        /\ IsBlocked(t)
        /\ DecisionOf(task[t], {m \in toUpstream : m.sock = t}) = "Blocked"
        /\ DecisionOf(task[u], {m \in toUpstream : m.sock = u}) = "Blocked"

\* C19: a task sends at most one datagram on the listen socket; a datagram is
\* sent only by a task in flight that has sent none yet, one task at a step,
\* and it goes to the address the datagram of that task came from.
C19_OneReplyToSender ==
    [][\A t \in Tasks :
          /\ Len(sent'[t]) <= 1
          /\ \A i \in 1..Len(sent'[t]) : sent'[t][i].to = task'[t].source
          /\ sent'[t] # sent[t] =>
                /\ sent[t] = <<>>
                /\ task[t].pc \in InFlight
                /\ sent'[t] = << [to |-> task[t].source, data |-> task[t].response] >>
                /\ task'[t].pc = "Replied"
                /\ \A u \in Tasks \ {t} : sent'[u] = sent[u]
          /\ task'[t].pc # "Replied" => sent'[t] = <<>>
      ]_vars

C19_Witness ==
    \E t, u \in Tasks :
        /\ t < u
        /\ task[t].source # task[u].source
        /\ task[t].pc = "Replied" /\ task[u].pc = "Dropped"
        /\ Len(sent[t]) = 1 /\ sent[t][1].to = task[t].source
        /\ sent[u] = <<>>

\* C20: create_nxdomain_response returns a response for every received datagram
\* that parse_dns_query accepts; a task whose datagram is blocked goes from
\* Received to Synthesized holding that response, and if it ends in Dropped it
\* is the send of the reply to the client that failed.
C20_BlockedAlwaysSynthesized ==
    \A t \in Tasks :
        task[t].pc # "Unspawned" =>
            /\ parse_dns_query(task[t].request).ok =>
                  create_nxdomain_response(task[t].request).ok
            /\ IsBlocked(t) =>
                  /\ task[t].pc \in {"Received", "Synthesized", "Replied", "Dropped"}
                  /\ task[t].pc # "Received" =>
                        task[t].response = create_nxdomain_response(task[t].request).val
                  /\ task[t].pc = "Dropped" => task[t].error = "send_to failed"

C20_Witness ==
    \E t \in Tasks :
        /\ IsBlocked(t)
        /\ task[t].pc = "Dropped" /\ task[t].error = "send_to failed"
        /\ Len(task[t].response) = Len(task[t].request)
        /\ \E u \in Tasks : IsBlocked(u) /\ task[u].pc = "Synthesized"

====
